---- MODULE Spec2Model ----
(***************************************************************************)
(* A model of attached_assets/main.py: the ambulance-detection video loop, *)
(* the in-memory traffic light, the /update_gps Flask handler and the two  *)
(* proximity/routing stubs.                                                *)
(*                                                                         *)
(* Conventions.                                                            *)
(*  - A Python float is a pair <<whole, tenths>> with whole >= 0, so that  *)
(*    int() is a real truncation and not the identity.                     *)
(*  - Python's None for args.path is the string "None"; the empty string   *)
(*    is a path that was given as -p "".                                   *)
(*  - A JSON object is a function from field names to values.  The         *)
(*    identifiers sent to /update_gps are JSON strings and the coordinates *)
(*    JSON numbers, as in the documented request body.                     *)
(*  - The script never starts the Flask server itself; the handler runs    *)
(*    when a server is given the app.  The model lets requests arrive at   *)
(*    any point of the video loop, which covers every way of running both. *)
(*    The handler is one atomic step (a Flask view runs to completion or   *)
(*    raises).                                                             *)
(***************************************************************************)
EXTENDS Integers, Sequences, FiniteSets, TLC

VARIABLES
    ambulance_data,      \* main.py:15   dict: ambulance_id -> (latitude, longitude)
    traffic_light,       \* main.py:20   RED or GREEN
    args,                \* main.py:90   parsed command line
    pc,                  \* position of the __main__ block
    cap,                 \* main.py:93/95 the cv2.VideoCapture
    ret,                 \* main.py:101  <<>> while unbound, else <<flag of the last cap.read()>>
    frame,               \* main.py:101  the current frame, with what was drawn on it
    ambulance_detected,  \* main.py:105
    quit,                \* main.py:116  whether the last key test found 'q'
    window,              \* main.py:115/120 the display window
    stdout,              \* last line printed (main.py:97,108,110)
    exit_status,         \* <<>> while running, <<n>> once the process ended with status n
    request,             \* main.py:32   request.json of the last POST to /update_gps
    response,            \* main.py:36   last HTTP response of /update_gps
    server_log,          \* whether the server has logged an unhandled exception
    stub_call            \* last call of is_ambulance_near / get_fastest_route

main_vars == <<traffic_light, args, pc, cap, ret, frame, ambulance_detected,
               quit, window, stdout, exit_status>>
http_vars == <<ambulance_data, request, response, server_log>>
vars == <<ambulance_data, traffic_light, args, pc, cap, ret, frame,
          ambulance_detected, quit, window, stdout, exit_status, request,
          response, server_log, stub_call>>

----------------------------------------------------------------------------
(* Bounds of the model *)

\* longest detection list the detector returns for one frame
MaxDetections == 2
\* most frames a video file holds
MaxFrames == 2

----------------------------------------------------------------------------
(* Constants of the program *)

RED == <<0, 0, 255>>
GREEN == <<0, 255, 0>>

\* Times Square, in whole degrees
TRAFFIC_SIGNAL_LOCATION == <<40, -73>>

\* 5 = bus, standing in for ambulance
TargetClass == 5

\* ord('q')
OrdQ == 113

ErrorMsg == "Error: Please provide either -p/--path for video or -l/--live for webcam."
DetectedMsg == "Ambulance detected! Turning traffic light GREEN."
NotDetectedMsg == "No ambulance detected. Traffic light stays RED."

----------------------------------------------------------------------------
(* Input domains *)

\* class ids the detector reports, as the floats of box.cls (2 = car, 5 = bus)
ClassFloats == { <<2, 0>>, <<5, 0>> }

\* box.xyxy values: four float pixel coordinates
BoxFloats == << << <<10, 5>>, <<20, 0>>, <<30, 9>>, <<40, 2>> >>,
               << <<50, 1>>, <<15, 5>>, <<60, 0>>, <<70, 7>> >> >>

\* the i-th detection of a frame sits at the i-th box, the boxes taken in turn,
\* so that a third detection repeats the box of the first
BoxAt(i) == BoxFloats[((i - 1) % Len(BoxFloats)) + 1]

\* the detection lists of a frame: any classes, up to MaxDetections of them
DetectionLists ==
    UNION { { [i \in 1..n |-> [cls |-> c[i], xyxy |-> BoxAt(i)]] : c \in [1..n -> ClassFloats] } :
            n \in 0..MaxDetections }

\* values of args.path: absent, given empty, given
Paths == { "None", "", "video.mp4" }

\* values cv2.waitKey(1) returns: no key, 'a', 'q', 'q' with a high bit set
KeyCodes == { -1, 97, OrdQ, OrdQ + 256 }

AmbulanceIds == { "A1", "A2" }
\* (latitude, longitude) pairs a client sends
Locations == { <<10, 20>>, <<40, -73>> }
Fields == { "ambulance_id", "latitude", "longitude" }

FullBody(id, lat, lon) ==
    [f \in Fields |-> CASE f = "ambulance_id" -> id
                        [] f = "latitude" -> lat
                        [] f = "longitude" -> lon]

WellFormedBodies == { FullBody(id, loc[1], loc[2]) : id \in AmbulanceIds, loc \in Locations }

\* bodies that lack a field: each single field left out, and the empty object
MalformedBodies ==
    { [f \in S |-> FullBody("A1", 10, 20)[f]] :
        S \in { Fields \ {g} : g \in Fields } \cup { {} } }

Bodies == WellFormedBodies \cup MalformedBodies

\* arguments the stubs are called with
GpsInputs == { TRAFFIC_SIGNAL_LOCATION, <<10, 20>> }
HospitalInputs == { <<41, -74>> }

----------------------------------------------------------------------------
(* Values *)

NoFrame == [valid |-> FALSE, boxes |-> <<>>, rects |-> {}, labels |-> {}, circle |-> <<>>]
NewFrame(boxes) ==
    [valid |-> TRUE, boxes |-> boxes, rects |-> {}, labels |-> {}, circle |-> <<>>]

NoCap == [source |-> "none", opened |-> FALSE, left |-> 0, released |-> FALSE]

NoResponse == [status |-> "none"]
NoCall == [fn |-> "none", args |-> <<>>, ret |-> <<>>]

----------------------------------------------------------------------------
(* Pure functions *)

\* int(x) for a non-negative float: the fraction is dropped
PyInt(x) == x[1]

\* a Python truth test of a str-or-None
Truthy(s) == s \notin { "None", "" }

\* the distance check left in the docstring: near when at the signal
is_ambulance_near_enabled(ambulance_gps) == ambulance_gps = TRAFFIC_SIGNAL_LOCATION

is_ambulance_near(ambulance_gps) == FALSE

get_fastest_route(ambulance_gps, hospital_gps) == <<"5 mins", "2 km">>

\* the drawing calls moved out of the if: every box is annotated
VisitBox_draw_all(box, st) ==
    LET class_id == PyInt(box.cls)
        x1 == PyInt(box.xyxy[1])
        y1 == PyInt(box.xyxy[2])
        x2 == PyInt(box.xyxy[3])
        y2 == PyInt(box.xyxy[4])
    IN  [detected |-> st.detected \/ class_id = TargetClass,
         rects |-> st.rects \cup { <<x1, y1, x2, y2>> },
         labels |-> st.labels \cup { <<"AMBULANCE", x1, y1 - 10>> }]

\* the body of the inner loop of detect_ambulance for one box;
\* st = [detected, rects, labels] is the flag and what has been drawn so far
VisitBox(box, st) ==
    LET class_id == PyInt(box.cls)
        x1 == PyInt(box.xyxy[1])
        y1 == PyInt(box.xyxy[2])
        x2 == PyInt(box.xyxy[3])
        y2 == PyInt(box.xyxy[4])
    IN  IF class_id = TargetClass
        THEN [detected |-> TRUE,
              rects |-> st.rects \cup { <<x1, y1, x2, y2>> },
              labels |-> st.labels \cup { <<"AMBULANCE", x1, y1 - 10>> }]
        ELSE st

RECURSIVE ScanBoxes(_, _)
ScanBoxes(boxes, st) ==
    IF boxes = <<>> THEN st
    ELSE ScanBoxes(Tail(boxes), VisitBox(Head(boxes), st))

RECURSIVE ScanResults(_, _)
ScanResults(results, st) ==
    IF results = <<>> THEN st
    ELSE ScanResults(Tail(results), ScanBoxes(Head(results).boxes, st))

\* model(frame): one result per image, holding the frame's detections
YoloModel(f) == << [boxes |-> f.boxes] >>

\* returns the annotated frame and the flag
detect_ambulance(f) ==
    LET st == ScanResults(YoloModel(f),
                          [detected |-> FALSE, rects |-> f.rects, labels |-> f.labels])
    IN  [frame |-> [f EXCEPT !.rects = st.rects, !.labels = st.labels],
         ret |-> st.detected]

\* a light that stays GREEN once set
change_traffic_light_sticky(detected) == IF detected THEN GREEN ELSE traffic_light

\* the new value of traffic_light
change_traffic_light(detected) == IF detected THEN GREEN ELSE RED

\* the frame with the light drawn on it
draw_traffic_light(f, light) == [f EXCEPT !.circle = light]

\* cv2.waitKey(1) & 0xFF == ord('q')
IsQuitKey(k) == (k % 256) = OrdQ

\* the mapping rebuilt on every update instead of updated in place
update_gps_result_replace(data, store) ==
    IF DOMAIN data # Fields
    THEN [store |-> store, raised |-> TRUE,
          response |-> [status |-> "KeyError",
                        key |-> CHOOSE f \in Fields : f \notin DOMAIN data]]
    ELSE LET ambulance_id == data["ambulance_id"]
             gps_location == <<data["latitude"], data["longitude"]>>
         IN  [store |-> [k \in {ambulance_id} |-> gps_location],
              raised |-> FALSE,
              response |-> [status |-> "updated", ambulance_id |-> ambulance_id,
                            location |-> gps_location]]

\* the coordinates taken in the wrong order
update_gps_result_swapped(data, store) ==
    IF DOMAIN data # Fields
    THEN [store |-> store, raised |-> TRUE,
          response |-> [status |-> "KeyError",
                        key |-> CHOOSE f \in Fields : f \notin DOMAIN data]]
    ELSE LET ambulance_id == data["ambulance_id"]
             gps_location == <<data["longitude"], data["latitude"]>>
         IN  [store |-> [k \in DOMAIN store \cup {ambulance_id} |->
                            IF k = ambulance_id THEN gps_location ELSE store[k]],
              raised |-> FALSE,
              response |-> [status |-> "updated", ambulance_id |-> ambulance_id,
                            location |-> gps_location]]

\* data.get(field, 0) in place of data[field]: nothing raises, a default is stored
update_gps_result_get(data, store) ==
    LET Get(f, d) == IF f \in DOMAIN data THEN data[f] ELSE d
        ambulance_id == Get("ambulance_id", "A1")
        gps_location == <<Get("latitude", 0), Get("longitude", 0)>>
    IN  [store |-> [k \in DOMAIN store \cup {ambulance_id} |->
                       IF k = ambulance_id THEN gps_location ELSE store[k]],
         raised |-> FALSE,
         response |-> [status |-> "updated", ambulance_id |-> ambulance_id,
                       location |-> gps_location]]

\* the view function: the new mapping, the response, and whether it raised
update_gps_result(data, store) ==
    IF "ambulance_id" \notin DOMAIN data
    THEN [store |-> store, raised |-> TRUE,
          response |-> [status |-> "KeyError", key |-> "ambulance_id"]]
    ELSE IF "latitude" \notin DOMAIN data
    THEN [store |-> store, raised |-> TRUE,
          response |-> [status |-> "KeyError", key |-> "latitude"]]
    ELSE IF "longitude" \notin DOMAIN data
    THEN [store |-> store, raised |-> TRUE,
          response |-> [status |-> "KeyError", key |-> "longitude"]]
    ELSE LET ambulance_id == data["ambulance_id"]
             gps_location == <<data["latitude"], data["longitude"]>>
         IN  [store |-> [k \in DOMAIN store \cup {ambulance_id} |->
                            IF k = ambulance_id THEN gps_location ELSE store[k]],
              raised |-> FALSE,
              response |-> [status |-> "updated", ambulance_id |-> ambulance_id,
                            location |-> gps_location]]

----------------------------------------------------------------------------
(* Initial state *)

Init ==
    /\ ambulance_data = [k \in {} |-> <<0, 0>>]
    /\ traffic_light = RED
    /\ args \in [live : BOOLEAN, path : Paths]
    /\ pc = "start"
    /\ cap = NoCap
    /\ ret = <<>>
    /\ frame = NoFrame
    /\ ambulance_detected = FALSE
    /\ quit = FALSE
    /\ window = "none"
    /\ stdout = ""
    /\ exit_status = <<>>
    /\ request = [f \in {} |-> 0]
    /\ response = NoResponse
    /\ server_log = FALSE
    /\ stub_call = NoCall

----------------------------------------------------------------------------
(* The __main__ block *)

\* the webcam taken as the default when no flag is given
OpenSource_default_camera ==
    /\ pc = "start"
    /\ IF args.live \/ ~Truthy(args.path)
       THEN \E ok \in BOOLEAN :
              cap' = [source |-> "camera", opened |-> ok, left |-> 0, released |-> FALSE]
       ELSE \E ok \in BOOLEAN, n \in 0..MaxFrames :
              cap' = [source |-> "file", opened |-> ok,
                      left |-> IF ok THEN n ELSE 0, released |-> FALSE]
    /\ pc' = "loop"
    /\ UNCHANGED <<traffic_light, args, ret, frame, ambulance_detected, quit, window,
                   stdout, exit_status>>
    /\ UNCHANGED <<http_vars, stub_call>>

\* lines 92-98: choose the source, or print the error and exit(1)
OpenSource ==
    /\ pc = "start"
    /\ IF args.live
       THEN /\ \E ok \in BOOLEAN :
                 cap' = [source |-> "camera", opened |-> ok, left |-> 0, released |-> FALSE]
            /\ pc' = "loop"
            /\ UNCHANGED <<stdout, exit_status>>
       ELSE IF Truthy(args.path)
       THEN /\ \E ok \in BOOLEAN, n \in 0..MaxFrames :
                 cap' = [source |-> "file", opened |-> ok,
                         left |-> IF ok THEN n ELSE 0, released |-> FALSE]
            /\ pc' = "loop"
            /\ UNCHANGED <<stdout, exit_status>>
       ELSE /\ stdout' = ErrorMsg
            /\ exit_status' = <<1>>
            /\ pc' = "exited"
            /\ UNCHANGED cap
    /\ UNCHANGED <<traffic_light, args, ret, frame, ambulance_detected, quit, window>>
    /\ UNCHANGED <<http_vars, stub_call>>

\* a failed read that goes round the loop again instead of leaving it
ReadFrame_continue ==
    /\ pc = "loop"
    /\ IF ~cap.opened
       THEN /\ pc' = "release"
            /\ UNCHANGED <<cap, ret, frame>>
       ELSE \/ /\ cap.source = "file" => cap.left > 0
               /\ \E boxes \in DetectionLists : frame' = NewFrame(boxes)
               /\ ret' = <<TRUE>>
               /\ cap' = [cap EXCEPT !.left = IF cap.source = "file" THEN @ - 1 ELSE @]
               /\ pc' = "detect"
            \/ /\ cap.source = "file" => cap.left = 0
               /\ frame' = NoFrame
               /\ ret' = <<FALSE>>
               /\ pc' = "loop"
               /\ UNCHANGED cap
    /\ UNCHANGED <<traffic_light, args, ambulance_detected, quit, window, stdout, exit_status>>
    /\ UNCHANGED <<http_vars, stub_call>>

\* lines 100-103: the loop test, the read, and the break on a failed read
ReadFrame ==
    /\ pc = "loop"
    /\ IF ~cap.opened
       THEN /\ pc' = "release"
            /\ UNCHANGED <<cap, ret, frame>>
       ELSE \/ /\ cap.source = "file" => cap.left > 0
               /\ \E boxes \in DetectionLists : frame' = NewFrame(boxes)
               /\ ret' = <<TRUE>>
               /\ cap' = [cap EXCEPT !.left = IF cap.source = "file" THEN @ - 1 ELSE @]
               /\ pc' = "detect"
            \/ /\ cap.source = "file" => cap.left = 0
               /\ frame' = NoFrame
               /\ ret' = <<FALSE>>
               /\ pc' = "release"
               /\ UNCHANGED cap
    /\ UNCHANGED <<traffic_light, args, ambulance_detected, quit, window, stdout, exit_status>>
    /\ UNCHANGED <<http_vars, stub_call>>

\* lines 105-110: detect and print
Detect ==
    /\ pc = "detect"
    /\ LET r == detect_ambulance(frame)
       IN  /\ frame' = r.frame
           /\ ambulance_detected' = r.ret
           /\ stdout' = IF r.ret THEN DetectedMsg ELSE NotDetectedMsg
    /\ pc' = "change"
    /\ UNCHANGED <<traffic_light, args, cap, ret, quit, window, exit_status>>
    /\ UNCHANGED <<http_vars, stub_call>>

\* line 112
ChangeLight ==
    /\ pc = "change"
    /\ traffic_light' = change_traffic_light(ambulance_detected)
    /\ pc' = "draw"
    /\ UNCHANGED <<args, cap, ret, frame, ambulance_detected, quit, window, stdout, exit_status>>
    /\ UNCHANGED <<http_vars, stub_call>>

\* line 113
DrawLight ==
    /\ pc = "draw"
    /\ frame' = draw_traffic_light(frame, traffic_light)
    /\ pc' = "show"
    /\ UNCHANGED <<traffic_light, args, cap, ret, ambulance_detected, quit, window, stdout,
                   exit_status>>
    /\ UNCHANGED <<http_vars, stub_call>>

\* lines 115-117: show the frame, poll the keyboard, break on 'q'
ShowWaitKey ==
    /\ pc = "show"
    /\ window' = "shown"
    /\ \E k \in KeyCodes :
         /\ quit' = IsQuitKey(k)
         /\ pc' = IF IsQuitKey(k) THEN "release" ELSE "loop"
    /\ UNCHANGED <<traffic_light, args, cap, ret, frame, ambulance_detected, stdout,
                   exit_status>>
    /\ UNCHANGED <<http_vars, stub_call>>

\* lines 119-120, then the end of the script
Release ==
    /\ pc = "release"
    /\ cap' = [cap EXCEPT !.opened = FALSE, !.released = TRUE]
    /\ window' = "closed"
    /\ exit_status' = <<0>>
    /\ pc' = "done"
    /\ UNCHANGED <<traffic_light, args, ret, frame, ambulance_detected, quit, stdout>>
    /\ UNCHANGED <<http_vars, stub_call>>

MainStep ==
    OpenSource \/ ReadFrame \/ Detect \/ ChangeLight \/ DrawLight \/ ShowWaitKey \/ Release

----------------------------------------------------------------------------
(* The HTTP endpoint *)

\* a handler that also switches the light when a position arrives
update_gps_turns_green ==
    /\ \E data \in Bodies :
         LET r == update_gps_result(data, ambulance_data)
         IN  /\ request' = data
             /\ ambulance_data' = r.store
             /\ response' = r.response
             /\ server_log' = (server_log \/ r.raised)
             /\ traffic_light' = IF r.raised THEN traffic_light ELSE GREEN
    /\ UNCHANGED <<args, pc, cap, ret, frame, ambulance_detected, quit, window, stdout,
                   exit_status, stub_call>>

\* lines 29-36: one POST to /update_gps, handled to its response or its exception
update_gps ==
    /\ \E data \in Bodies :
         LET r == update_gps_result(data, ambulance_data)
         IN  /\ request' = data
             /\ ambulance_data' = r.store
             /\ response' = r.response
             /\ server_log' = (server_log \/ r.raised)
    /\ UNCHANGED <<main_vars, stub_call>>

----------------------------------------------------------------------------
(* The stubs, called with inputs that include whatever the mapping holds *)

CallIsAmbulanceNear ==
    /\ \E g \in GpsInputs \cup { ambulance_data[k] : k \in DOMAIN ambulance_data } :
         stub_call' = [fn |-> "is_ambulance_near", args |-> <<g>>,
                       ret |-> <<is_ambulance_near(g)>>]
    /\ UNCHANGED <<main_vars, http_vars>>

CallGetFastestRoute ==
    /\ \E g \in GpsInputs \cup { ambulance_data[k] : k \in DOMAIN ambulance_data },
          h \in HospitalInputs :
         stub_call' = [fn |-> "get_fastest_route", args |-> <<g, h>>,
                       ret |-> get_fastest_route(g, h)]
    /\ UNCHANGED <<main_vars, http_vars>>

----------------------------------------------------------------------------

\* the program as it runs: the script and the endpoint; nothing in it calls the stubs
ProgramNext ==
    \/ OpenSource
    \/ ReadFrame
    \/ Detect
    \/ ChangeLight
    \/ DrawLight
    \/ ShowWaitKey
    \/ Release
    \/ update_gps

\* the program, and a caller of the two stubs beside it
Next ==
    \/ OpenSource
    \/ ReadFrame
    \/ Detect
    \/ ChangeLight
    \/ DrawLight
    \/ ShowWaitKey
    \/ Release
    \/ update_gps
    \/ CallIsAmbulanceNear
    \/ CallGetFastestRoute

Spec == Init /\ [][Next]_vars

\* the program alone; the interpreter runs the script's next statement
\* whenever there is one, however many requests arrive
FairSpec == Init /\ [][ProgramNext]_vars /\ WF_vars(MainStep)

----------------------------------------------------------------------------
(* Properties *)

\* whether a detection list holds a detection of the target class
HasTarget(boxes) == \E i \in 1..Len(boxes) : boxes[i].cls = <<TargetClass, 0>>

\* the whole-pixel rectangle of a detection
RectOf(b) == <<b.xyxy[1][1], b.xyxy[2][1], b.xyxy[3][1], b.xyxy[4][1]>>

\* the detections of the target class in a list
TargetsOf(boxes) == { boxes[i] : i \in { j \in 1..Len(boxes) : boxes[j].cls = <<TargetClass, 0>> } }

\* the video loop has set the light for the frame it holds
LightSetForFrame == frame.valid /\ pc \notin { "detect", "change" }

\* a step of the /update_gps handler
HandlerStep == http_vars' # http_vars

\* C1: once the loop has set the light for a frame, the light is GREEN exactly
\* when that frame's detection list holds a detection of class 5, and RED
\* otherwise, whatever the earlier frames held.
C1_SignalFollowsLatestFrame ==
    LightSetForFrame =>
        /\ traffic_light = GREEN <=> HasTarget(frame.boxes)
        /\ traffic_light = RED <=> ~HasTarget(frame.boxes)

C1_Witness ==
    /\ pc = "draw"
    /\ traffic_light = GREEN
    /\ Len(frame.boxes) = 2
    /\ frame.boxes[1].cls # <<TargetClass, 0>>
    /\ frame.boxes[2].cls = <<TargetClass, 0>>

\* C2: after detect_ambulance the frame carries a rectangle and an "AMBULANCE"
\* label at the box of every class-5 detection and nothing else, and the
\* returned flag is true exactly when something was annotated.
C2_AnnotatesExactlyTargets ==
    (frame.valid /\ pc # "detect") =>
        /\ frame.rects = { RectOf(b) : b \in TargetsOf(frame.boxes) }
        /\ frame.labels = { <<"AMBULANCE", RectOf(b)[1], RectOf(b)[2] - 10>> :
                              b \in TargetsOf(frame.boxes) }
        /\ ambulance_detected <=> frame.rects # {}

C2_Witness ==
    /\ pc = "change"
    /\ ambulance_detected
    /\ Len(frame.boxes) = 2
    /\ frame.boxes[1].cls = <<TargetClass, 0>>
    /\ frame.boxes[2].cls # <<TargetClass, 0>>
    /\ Cardinality(frame.rects) = 1

\* C3: after a POST whose body carries ambulance_id, latitude and longitude,
\* the mapping holds (latitude, longitude) under that ambulance_id and the
\* response is status "updated" with the same id and the same pair.
C3_PostStoresAndEchoes ==
    (DOMAIN request = Fields) =>
        /\ request["ambulance_id"] \in DOMAIN ambulance_data
        /\ ambulance_data[request["ambulance_id"]] =
               <<request["latitude"], request["longitude"]>>
        /\ response = [status |-> "updated",
                       ambulance_id |-> request["ambulance_id"],
                       location |-> <<request["latitude"], request["longitude"]>>]

C3_Witness ==
    /\ DOMAIN request = Fields
    /\ request["ambulance_id"] = "A1"
    /\ response.status = "updated"
    /\ ambulance_data["A1"] = <<40, -73>>

\* what a step may do to the mapping
MappingStepOk ==
    /\ DOMAIN ambulance_data \subseteq DOMAIN ambulance_data'
    /\ ambulance_data' # ambulance_data => (HandlerStep /\ DOMAIN request' = Fields)
    /\ (HandlerStep /\ DOMAIN request' = Fields) =>
         /\ DOMAIN ambulance_data' = DOMAIN ambulance_data \cup { request'["ambulance_id"] }
         /\ \A k \in DOMAIN ambulance_data' :
              ambulance_data'[k] =
                  IF k = request'["ambulance_id"]
                  THEN <<request'["latitude"], request'["longitude"]>>
                  ELSE ambulance_data[k]

\* C4: every successful POST sets the entry of its identifier to its
\* coordinates and leaves every other entry as it was, nothing else changes
\* the mapping, and no identifier ever leaves it.
C4_LastWriteWins ==
    [][MappingStepOk]_vars

C4_Witness ==
    /\ DOMAIN ambulance_data = AmbulanceIds
    /\ ambulance_data["A1"] # ambulance_data["A2"]
    /\ DOMAIN request = Fields
    /\ request["ambulance_id"] = "A1"
    /\ response.status = "updated"

\* C5: an invocation that gives both -l and a video path with -p is not taken
\* as a source selection: no frame is ever read from a source for it.
C5_BothFlagsRejected ==
    (args.live /\ Truthy(args.path)) =>
        /\ ret = <<>>
        /\ ~frame.valid

\* C6: with neither flag the program prints the error and exits with a
\* non-zero status; no capture is opened, no frame is read or detected, and
\* the light keeps its initial RED.
C6_NoSourceExits ==
    (~args.live /\ args.path = "None") =>
        /\ cap = NoCap
        /\ ret = <<>>
        /\ frame = NoFrame
        /\ window = "none"
        /\ stdout \notin { DetectedMsg, NotDetectedMsg }
        /\ traffic_light = RED
        /\ \/ pc = "start" /\ exit_status = <<>>
           \/ /\ pc = "exited"
              /\ stdout = ErrorMsg
              /\ Len(exit_status) = 1
              /\ exit_status[1] # 0

C6_Witness ==
    /\ ~args.live
    /\ args.path = "None"
    /\ pc = "exited"
    /\ exit_status = <<1>>
    /\ DOMAIN ambulance_data = AmbulanceIds

\* C7: is_ambulance_near returns false and get_fastest_route returns
\* ("5 mins", "2 km") for every input, in every state of the mapping and the
\* light, and a call of either changes neither the mapping nor the light.
C7_StubsConstant ==
    /\ [](stub_call.fn = "is_ambulance_near" => stub_call.ret = <<FALSE>>)
    /\ [](stub_call.fn = "get_fastest_route" => stub_call.ret = <<"5 mins", "2 km">>)
    /\ [][(stub_call' # stub_call) =>
            (UNCHANGED <<ambulance_data, traffic_light>>)]_vars

C7_Witness ==
    /\ stub_call.fn = "is_ambulance_near"
    /\ stub_call.args = <<TRAFFIC_SIGNAL_LOCATION>>
    /\ stub_call.ret = <<FALSE>>
    /\ "A1" \in DOMAIN ambulance_data
    /\ ambulance_data["A1"] = TRAFFIC_SIGNAL_LOCATION
    /\ traffic_light = GREEN

\* C8: a step of the handler leaves the light and every other variable of the
\* video loop unchanged, a step of the video loop leaves the mapping and the
\* handler's variables unchanged, and the light set for a frame is decided by
\* that frame alone, whatever the mapping holds.
C8_NoInterference ==
    /\ [][HandlerStep => (UNCHANGED main_vars)]_vars
    /\ [][(pc' # pc) => (UNCHANGED http_vars)]_vars
    /\ [](LightSetForFrame =>
            traffic_light = IF HasTarget(frame.boxes) THEN GREEN ELSE RED)

C8_Witness ==
    /\ pc = "show"
    /\ traffic_light = RED
    /\ frame.circle = RED
    /\ DOMAIN ambulance_data = AmbulanceIds
    /\ response.status = "updated"

\* C9 as stated: the loop is left only on a failed read or on the quit key.
C9_ExitOnlyOnReadFailureOrQuit ==
    pc \in { "release", "done" } => (ret = <<FALSE>> \/ quit)

\* a step that processes no frame and shows nothing
NothingMoreProcessed ==
    /\ pc' \in { "release", "done" }
    /\ UNCHANGED <<traffic_light, frame, ret, ambulance_detected, stdout>>
    /\ window' \in { window, "closed" }

\* C9 as amended: the loop is left on the first failed read, on the quit key,
\* or at its test when the capture is not open and nothing was read; from then
\* on no frame is detected, the light and the frame do not change, nothing is
\* shown, and the capture is released; with a video file as the source the
\* script always ends.
C9_LoopExit ==
    /\ [](pc \in { "release", "done" } =>
            \/ ret = <<FALSE>>
            \/ quit
            \/ ret = <<>> /\ ~cap.opened /\ ~frame.valid)
    /\ []((ret = <<FALSE>> \/ quit) => pc \in { "release", "done" })
    /\ [][(pc \in { "release", "done" }) => NothingMoreProcessed]_vars
    /\ [](pc = "done" => cap.released /\ ~cap.opened /\ window = "closed")
    /\ (cap.source = "file" ~> pc = "done")

C9_Witness ==
    /\ pc = "done"
    /\ cap.source = "file"
    /\ cap.released
    /\ ret = <<FALSE>>
    /\ ~quit
    /\ stdout = DetectedMsg
    /\ traffic_light = GREEN

\* the handler raised on a missing field and stored nothing
FailedWithoutStoring ==
    /\ ambulance_data' = ambulance_data
    /\ response'.status = "KeyError"
    /\ response'.key \in Fields \ DOMAIN request'
    /\ server_log'

\* the handler answered normally
Served ==
    /\ response'.status = "updated"
    /\ server_log' = server_log

\* C10: a POST whose body lacks a field raises the lookup error for a missing
\* field, gives no "updated" response and leaves the mapping exactly as it
\* was; a well-formed POST is answered "updated" also after such failures.
C10_MissingFieldFails ==
    /\ [][(HandlerStep /\ DOMAIN request' # Fields) => FailedWithoutStoring]_vars
    /\ [][(HandlerStep /\ DOMAIN request' = Fields) => Served]_vars

C10_Witness ==
    /\ server_log
    /\ DOMAIN request = Fields
    /\ response.status = "updated"
    /\ DOMAIN ambulance_data = AmbulanceIds

====
